---- MODULE Spec2Model ----
(***************************************************************************)
(* Model of src-tauri/src/lib.rs of lerche: the capture loop               *)
(* (start_capture), the pure transform (process_image), the shared frame   *)
(* buffer behind a parking_lot RwLock, and the query command               *)
(* (get_frame_data).                                                       *)
(*                                                                         *)
(* u32 values that can be large (a window coordinate cast from a negative  *)
(* i32, the frame counter) are kept as two 16-bit limbs [hi, lo], so that  *)
(* the 32-bit width is exact.  Small u32 values (sizes, fps) are naturals. *)
(***************************************************************************)
EXTENDS Integers, Naturals, Sequences, FiniteSets, TLC

(***************************************************************************)
(* Bounds of the model.                                                    *)
(***************************************************************************)
MaxWrites == 2
NumReaders == 1
MaxTime == 1
MaxTransient == 2
MaxDim == 5
MaxScale == 3
\* Clock ticks per second (Duration::as_secs truncates to whole seconds).
TicksPerSec == 1

(***************************************************************************)
(* u32 arithmetic on 16-bit limbs.                                         *)
(***************************************************************************)
Limb == 65536

U32Of(n) == [hi |-> n \div Limb, lo |-> n % Limb]

U32Zero == U32Of(0)

U32Max == [hi |-> Limb - 1, lo |-> Limb - 1]

\* `i as u32` for an i32 i: two's complement for a negative i.
FromI32(i) ==
    IF i >= 0 THEN U32Of(i)
    ELSE [hi |-> (Limb - 1) - ((-i - 1) \div Limb),
          lo |-> (Limb - 1) - ((-i - 1) % Limb)]

\* a + b on u32: the wrapped value and whether the sum left the u32 range.
AddU32(a, b) ==
    LET s == a.lo + b.lo
        h == a.hi + b.hi + (s \div Limb)
    IN  [val |-> [hi |-> h % Limb, lo |-> s % Limb], overflow |-> h >= Limb]

\* a * b on u32 (one factor below 2^15 in every use of the model).
MulU32(a, b) ==
    LET p0  == a.lo * b.lo
        mid == a.hi * b.lo + a.lo * b.hi + (p0 \div Limb)
    IN  [val |-> [hi |-> mid % Limb, lo |-> p0 % Limb],
         overflow |-> (a.hi * b.hi > 0) \/ (mid >= Limb)]

LtU32(a, b) == (a.hi < b.hi) \/ (a.hi = b.hi /\ a.lo < b.lo)

\* frame_counter.wrapping_add(1)
WrappingAdd1(c) == AddU32(c, U32Of(1)).val

(***************************************************************************)
(* The raw frame: texture_reader.get_data fills frame_data with            *)
(* width * height * 4 bytes.  The byte at index i of frame `id` is a       *)
(* fixed function of i, so that every sampled byte is recognisable.        *)
(***************************************************************************)
RawByte(id, i) == (i * 7 + id * 101 + 1) % 256

FrameData(tex) ==
    [i \in 1..(tex.width * tex.height * 4) |-> RawByte(tex.id, i - 1)]

(***************************************************************************)
(* process_image                                                           *)
(***************************************************************************)
\* crop_width / scale_factor, crop_height / scale_factor (scale_factor > 0)
NewWidth(crop_width, scale_factor) == crop_width \div scale_factor

NewHeight(crop_height, scale_factor) == crop_height \div scale_factor

\* (crop as f32 / new as f32).ceil() as u32: the float-to-int cast
\* saturates, +inf gives u32::MAX and NaN gives 0.  Exact for the small
\* operands of the model (f32 holds integers below 2^24 exactly).
CeilDivPlusOne(crop, new) ==
    IF new = 0 THEN (IF crop = 0 THEN U32Zero ELSE U32Max)
    ELSE U32Of(crop \div new + 1)

CeilDivF32(crop, new) ==
    IF new = 0 THEN (IF crop = 0 THEN U32Zero ELSE U32Max)
    ELSE U32Of((crop + new - 1) \div new)

\* The four pushes of one source pixel starting at src_idx = i:
\* original[i + 2], original[i + 1], original[i], original[i + 3]
\* (sequences are 1-based, so byte j of the slice is original[j + 1]).
RemapIdentity(original, i) ==
    <<original[i + 1], original[i + 2], original[i + 3], original[i + 4]>>

Remap(original, i) ==
    <<original[i + 3], original[i + 2], original[i + 1], original[i + 4]>>

\* What a destination pixel that fails either `if` appends: nothing.
SkippedPadded == <<0, 0, 0, 0>>

Skipped == <<>>

\* One destination pixel (x, y): the bytes it appends, or a panic when an
\* arithmetic overflow is hit in a build with overflow checks.  `src` is
\* (src_x, src_y), `emit` tells whether both `if`s passed and `idx` is
\* src_idx when they did.
Pixel(original, orig_width, crop_x, crop_y, crop_width, crop_height, x_scale, y_scale, x, y, checks) ==
    LET mx    == MulU32(U32Of(x), x_scale)
        sx    == AddU32(crop_x, mx.val)
        my    == MulU32(U32Of(y), y_scale)
        sy    == AddU32(crop_y, my.val)
        src_x == sx.val
        src_y == sy.val
        ex    == AddU32(crop_x, U32Of(crop_width))
        ey    == AddU32(crop_y, U32Of(crop_height))
        in_x  == LtU32(src_x, ex.val)
        in_y  == LtU32(src_y, ey.val)
        row   == MulU32(src_y, U32Of(orig_width))
        lin   == AddU32(row.val, src_x)
        idx4  == MulU32(lin.val, U32Of(4))
        src_idx == idx4.val
        \* src_idx + 3 < original.len(), in usize
        in_buf == /\ src_idx.hi < 32768
                  /\ src_idx.hi * Limb + src_idx.lo + 3 < Len(original)
        i     == src_idx.hi * Limb + src_idx.lo
        ovf   == \/ mx.overflow \/ sx.overflow \/ my.overflow \/ sy.overflow
                 \/ ex.overflow
                 \/ (in_x /\ ey.overflow)
                 \/ (in_x /\ in_y /\
                       (row.overflow \/ lin.overflow \/ idx4.overflow))
    IN  IF checks /\ ovf THEN [panic |-> TRUE, bytes |-> <<>>,
                               src |-> <<src_x, src_y>>, emit |-> FALSE,
                               idx |-> 0]
        ELSE IF in_x /\ in_y /\ in_buf
             THEN [panic |-> FALSE, bytes |-> Remap(original, i),
                   src |-> <<src_x, src_y>>, emit |-> TRUE, idx |-> i]
             ELSE [panic |-> FALSE, bytes |-> Skipped,
                   src |-> <<src_x, src_y>>, emit |-> FALSE, idx |-> 0]

RECURSIVE Downsample(_, _, _, _, _, _, _, _, _, _, _, _)
\* The two nested loops, in row-major order from destination pixel k on.
\* `grid` lists, for every destination pixel visited, what Pixel did.
Downsample(original, orig_width, crop_x, crop_y, crop_width, crop_height, new_width, new_height, x_scale, y_scale, k, checks) ==
    IF k >= new_width * new_height
    THEN [panic |-> FALSE, bytes |-> <<>>, grid |-> <<>>]
    ELSE LET p == Pixel(original, orig_width, crop_x, crop_y, crop_width,
                        crop_height, x_scale, y_scale,
                        k % new_width, k \div new_width, checks)
         IN  IF p.panic THEN [panic |-> TRUE, bytes |-> <<>>, grid |-> <<>>]
             ELSE LET rest == Downsample(original, orig_width, crop_x, crop_y,
                                         crop_width, crop_height, new_width,
                                         new_height, x_scale, y_scale,
                                         k + 1, checks)
                  IN  IF rest.panic THEN rest
                      ELSE [panic |-> FALSE, bytes |-> p.bytes \o rest.bytes,
                            grid |-> <<[src |-> p.src, emit |-> p.emit,
                                        idx |-> p.idx,
                                        len |-> Len(p.bytes)]>>
                                     \o rest.grid]

\* process_image: a division by zero panics in every build; an arithmetic
\* overflow panics when `checks` (debug profile) and wraps otherwise.
process_image(original, orig_width, crop_x, crop_y, crop_width, crop_height, scale_factor, checks) ==
    IF scale_factor = 0
    THEN [panic |-> TRUE, bytes |-> <<>>, grid |-> <<>>, new_width |-> 0,
          new_height |-> 0]
    ELSE LET new_width  == NewWidth(crop_width, scale_factor)
             new_height == NewHeight(crop_height, scale_factor)
             x_scale    == CeilDivF32(crop_width, new_width)
             y_scale    == CeilDivF32(crop_height, new_height)
             d == Downsample(original, orig_width, crop_x, crop_y, crop_width,
                             crop_height, new_width, new_height, x_scale,
                             y_scale, 0, checks)
         IN  [panic |-> d.panic, bytes |-> d.bytes, grid |-> d.grid,
              new_width |-> new_width, new_height |-> new_height]


(***************************************************************************)
(* Inputs of the collaborators.                                            *)
(***************************************************************************)
\* let scale_factor = 4;
ScaleFactor == 4

\* Raw frames the capture session can deliver: desc.width x desc.height.
Textures == {[id |-> 0, width |-> 8, height |-> 8]}

\* window.outer_position(): PhysicalPosition<i32>, negative when the window
\* hangs over the left or top edge of the screen.
Positions == {<<0, 0>>, <<-4, 0>>, <<0, 4>>}

\* window.outer_size(): PhysicalSize<u32>
Sizes == {<<8, 8>>, <<3, 8>>}

\* DDApiError values of acquire_next_frame_now that the loop breaks on,
\* and the others.
FatalErrors == {"AccessLost", "AccessDenied"}

TransientErrors == {"Timeout", "Unexpected"}

Readers == 1..NumReaders

(***************************************************************************)
(* State.                                                                  *)
(***************************************************************************)
VARIABLES
    buffer,          \* the FrameBuffer inside the RwLock
    lock_writer,     \* the RwLock is held exclusively by the loop
    lock_readers,    \* the get_frame_data calls holding the RwLock shared
    now,             \* the monotonic clock, in ticks of 1/TicksPerSec s
    checks,          \* the build panics on arithmetic overflow (debug)
    loop_pc,         \* position of start_capture
    loop_result,     \* what start_capture returned
    capture_error,   \* run's closure logged "Capture error"
    frame_counter, fps_counter, last_second, current_time,
    acq,             \* the Err(e) of acquire_next_frame_now the loop broke on
    tex, window_pos, window_size, processed_data,
    last_emit,       \* the last window.emit("frame-ready", n)
    rpc, rlocal, result,   \* per get_frame_data call
    \* history
    written,         \* a store write has happened
    writes,          \* store writes of this run
    emits,           \* window.emit calls of this run
    writes_at_publish,
    snapshot,        \* the buffer as the last completed write left it,
                     \* `written` once there is such a write, `n` the
                     \* frame_counter of its cycle
    consec,          \* consecutive transient acquire failures
    rseen,           \* per call: `snapshot` when its read lock was granted,
                     \* `after_fatal` if the loop had broken by then,
                     \* `fresh` if it was not older than the last emit
    \* the transform on its own
    tin, tout

loopvars == <<loop_pc, loop_result, capture_error, frame_counter, fps_counter,
              last_second, current_time, acq, tex, window_pos, window_size,
              processed_data, last_emit>>

sharedvars == <<buffer, lock_writer, lock_readers>>

readervars == <<rpc, rlocal, result>>

histvars == <<written, writes, emits, writes_at_publish, snapshot, consec,
              rseen>>

purevars == <<tin, tout>>

vars == <<buffer, lock_writer, lock_readers, now, checks, loop_pc,
          loop_result, capture_error, frame_counter, fps_counter, last_second,
          current_time, acq, tex, window_pos, window_size, processed_data,
          last_emit, rpc, rlocal, result, written, writes, emits, writes_at_publish,
          snapshot, consec, rseen, tin, tout>>


None == "none"

\* FrameBuffer::default()
FrameBufferDefault == [data |-> <<>>, width |-> 0, height |-> 0, fps |-> 0]

\* Values of locals that are not live.
NoTex == [id |-> 0, width |-> 0, height |-> 0]

NoPair == <<0, 0>>

NoEmit == [some |-> FALSE, n |-> U32Zero, ok |-> FALSE]

\* History records.
Snap(fb, w, n) == [written |-> w, data |-> fb.data, width |-> fb.width,
                   height |-> fb.height, fps |-> fb.fps, n |-> n]

Seen(sn, af, fr) == [written |-> sn.written, data |-> sn.data,
                     width |-> sn.width, height |-> sn.height,
                     fps |-> sn.fps, after_fatal |-> af, fresh |-> fr]

\* Snapshot sn is of the cycle that emit e announced, or of the next one.
NotOlder(sn, e) ==
    e.some => /\ sn.written
              /\ (sn.n = e.n \/ sn.n = WrappingAdd1(e.n))

NoSeen == Seen(Snap(FrameBufferDefault, FALSE, U32Zero), FALSE, TRUE)

NoLocal == [data |-> <<>>, width |-> 0, height |-> 0, fps |-> 0]

NoResult == [kind |-> None, data |-> <<>>, width |-> 0, height |-> 0,
             fps |-> 0]

\* Err("No valid frame data available.")
ErrNoFrame == [kind |-> "err", data |-> <<>>, width |-> 0, height |-> 0,
               fps |-> 0]

\* Ok((data.clone(), width, height, fps))
OkFrame(l) == [kind |-> "ok", data |-> l.data, width |-> l.width,
               height |-> l.height, fps |-> l.fps]

NoInput == [orig_width |-> 0, orig_height |-> 0, x |-> 0, y |-> 0,
            crop_width |-> 0, crop_height |-> 0, scale_factor |-> 0,
            checks |-> FALSE]

NoOutput == [done |-> FALSE, panic |-> FALSE, bytes |-> <<>>, grid |-> <<>>,
             new_width |-> 0, new_height |-> 0, width |-> 0, height |-> 0]

InitCommon ==
    /\ lock_writer = FALSE
    /\ lock_readers = {}
    /\ now = 0
    /\ checks \in BOOLEAN
    /\ loop_result = None
    /\ capture_error = FALSE
    /\ fps_counter = 0
    /\ last_second = 0
    /\ current_time = 0
    /\ acq = None
    /\ tex = NoTex
    /\ window_pos = NoPair
    /\ window_size = NoPair
    /\ processed_data = <<>>
    /\ rpc = [r \in Readers |-> "idle"]
    /\ rlocal = [r \in Readers |-> NoLocal]
    /\ result = [r \in Readers |-> NoResult]
    /\ writes = 0
    /\ emits = 0
    /\ writes_at_publish = 0
    /\ consec = 0
    /\ rseen = [r \in Readers |-> NoSeen]
    /\ tin = NoInput
    /\ tout = NoOutput

\* CaptureState::new() and the spawn of start_capture
Init ==
    /\ InitCommon
    /\ buffer = FrameBufferDefault
    /\ loop_pc = "init"
    /\ frame_counter = U32Zero
    /\ last_emit = NoEmit
    /\ written = FALSE
    /\ snapshot = Snap(FrameBufferDefault, FALSE, U32Zero)

(***************************************************************************)
(* start_capture.  A local of the iteration is reset to its idle value     *)
(* after its last use.                                                     *)
(***************************************************************************)
\* The locals of one loop iteration go out of scope.
DropLocals ==
    /\ tex' = NoTex
    /\ window_pos' = NoPair
    /\ window_size' = NoPair
    /\ processed_data' = <<>>

KeepLocals == UNCHANGED <<tex, window_pos, window_size, processed_data>>

KeepCounters == UNCHANGED <<frame_counter, fps_counter, last_second,
                            current_time>>

\* What `?` makes start_capture return when window.outer_position() or
\* window.outer_size() fails: Err(e.to_string()).
GeometryErrSwallowed == "Ok"

GeometryErrResult == "Err"

\* The value start_capture returns.
ReturnWith(r) ==
    /\ loop_pc' = "returned"
    /\ loop_result' = r

\* AdapterFactory::find, get_display_by_idx or DesktopDuplicationApi::new
\* fails: `?` returns the Err.
InitFail ==
    /\ loop_pc = "init"
    /\ ReturnWith("Err")
    /\ UNCHANGED <<sharedvars, now, checks, capture_error, acq, last_emit,
                   readervars, histvars, purevars>>
    /\ KeepCounters /\ KeepLocals

\* The session is open; frame_counter = 0, fps_counter = 0,
\* last_second = Instant::now().
InitOk ==
    /\ loop_pc = "init"
    /\ loop_pc' = "acquire"
    /\ frame_counter' = U32Zero
    /\ fps_counter' = 0
    /\ last_second' = now
    /\ UNCHANGED <<sharedvars, now, checks, loop_result, capture_error,
                   current_time, acq, last_emit, readervars, histvars,
                   purevars>>
    /\ KeepLocals

\* acquire_next_frame_now() = Ok(tex)
AcquireOk ==
    /\ loop_pc = "acquire"
    /\ writes < MaxWrites
    /\ \E t \in Textures : tex' = t
    /\ loop_pc' = "get_data"
    /\ consec' = 0
    /\ UNCHANGED <<sharedvars, now, checks, loop_result, capture_error, acq,
                   window_pos, window_size, processed_data, last_emit,
                   readervars, written, writes, emits, writes_at_publish, snapshot,
                   rseen, purevars>>
    /\ KeepCounters

\* if matches!(e, DDApiError::AccessLost | DDApiError::AccessDenied)
IsFatal(e) == e \in FatalErrors

\* What the function returns after `break`: the trailing Ok(()).
ResultAfterBreak == "Ok"

\* A loop that goes on after a fatal error.
AfterBreakContinue == "acquire"

\* `break` leaves the loop: the function returns.
AfterBreak == "returned"

\* A loop that gives up on any error.
AfterTransientBreak == "returned"

\* An unmatched error falls out of the match: the loop goes round.
AfterTransient == "acquire"

\* acquire_next_frame_now() = Err(e), e not matched: next iteration.
AcquireTransient ==
    /\ loop_pc = "acquire"
    /\ consec < MaxTransient
    /\ \E e \in TransientErrors \cup FatalErrors : ~IsFatal(e)
    /\ consec' = consec + 1
    /\ loop_pc' = AfterTransient
    /\ UNCHANGED <<sharedvars, now, checks, loop_result, capture_error, acq,
                   last_emit, readervars, written, writes, emits, writes_at_publish,
                   snapshot, rseen, purevars>>
    /\ KeepCounters /\ KeepLocals

\* acquire_next_frame_now() = Err(e), e matched: break.
AcquireFatal ==
    /\ loop_pc = "acquire"
    /\ \E e \in TransientErrors \cup FatalErrors :
          /\ IsFatal(e)
          /\ acq' = e
    /\ loop_pc' = AfterBreak
    /\ loop_result' = ResultAfterBreak
    /\ consec' = 0
    /\ UNCHANGED <<sharedvars, now, checks, capture_error, last_emit,
                   readervars, written, writes, emits, writes_at_publish, snapshot,
                   rseen, purevars>>
    /\ KeepCounters /\ KeepLocals

\* texture_reader.get_data(..) = Ok(_)
GetDataOk ==
    /\ loop_pc = "get_data"
    /\ loop_pc' = "position"
    /\ UNCHANGED <<sharedvars, now, checks, loop_result, capture_error, acq,
                   last_emit, readervars, histvars, purevars>>
    /\ KeepCounters /\ KeepLocals

\* texture_reader.get_data(..) = Err(e): continue.
GetDataErr ==
    /\ loop_pc = "get_data"
    /\ loop_pc' = "acquire"
    /\ DropLocals
    /\ UNCHANGED <<sharedvars, now, checks, loop_result, capture_error, acq,
                   last_emit, readervars, histvars, purevars>>
    /\ KeepCounters

\* window.outer_position() = Ok(p)
OuterPositionOk ==
    /\ loop_pc = "position"
    /\ \E p \in Positions : window_pos' = p
    /\ loop_pc' = "size"
    /\ UNCHANGED <<sharedvars, now, checks, loop_result, capture_error, acq,
                   tex, window_size, processed_data, last_emit, readervars,
                   histvars, purevars>>
    /\ KeepCounters

\* window.outer_position() = Err(e): `?` returns the Err.
OuterPositionErr ==
    /\ loop_pc = "position"
    /\ ReturnWith(GeometryErrResult)
    /\ DropLocals
    /\ UNCHANGED <<sharedvars, now, checks, capture_error, acq, last_emit,
                   readervars, histvars, purevars>>
    /\ KeepCounters

\* window.outer_size() = Ok(s)
OuterSizeOk ==
    /\ loop_pc = "size"
    /\ \E s \in Sizes : window_size' = s
    /\ loop_pc' = "process"
    /\ UNCHANGED <<sharedvars, now, checks, loop_result, capture_error, acq,
                   tex, window_pos, processed_data, last_emit, readervars,
                   histvars, purevars>>
    /\ KeepCounters

\* window.outer_size() = Err(e): `?` returns the Err.
OuterSizeErr ==
    /\ loop_pc = "size"
    /\ ReturnWith(GeometryErrResult)
    /\ DropLocals
    /\ UNCHANGED <<sharedvars, now, checks, capture_error, acq, last_emit,
                   readervars, histvars, purevars>>
    /\ KeepCounters

\* process_image(&frame_data, desc.width, window_pos.x as u32, ...)
Processed ==
    process_image(FrameData(tex), tex.width, FromI32(window_pos[1]),
                  FromI32(window_pos[2]), window_size[1], window_size[2],
                  ScaleFactor, checks)

\* A counter that stops at its maximum.
NextFrameCounterSaturating(c) == IF c = U32Max THEN c ELSE WrappingAdd1(c)

\* frame_counter = frame_counter.wrapping_add(1)
NextFrameCounter(c) == WrappingAdd1(c)

\* process_image returns; then frame_counter and fps_counter advance.
ProcessFrame ==
    /\ loop_pc = "process"
    /\ ~Processed.panic
    /\ processed_data' = Processed.bytes
    /\ frame_counter' = NextFrameCounter(frame_counter)
    /\ fps_counter' = fps_counter + 1
    /\ tex' = NoTex
    /\ window_pos' = NoPair
    /\ loop_pc' = "time"
    /\ UNCHANGED <<sharedvars, now, checks, loop_result, capture_error,
                   last_second, current_time, acq, window_size, last_emit,
                   readervars, histvars, purevars>>

\* process_image panics: the spawned task ends without returning.
ProcessPanic ==
    /\ loop_pc = "process"
    /\ Processed.panic
    /\ loop_pc' = "panicked"
    /\ DropLocals
    /\ UNCHANGED <<sharedvars, now, checks, loop_result, capture_error, acq,
                   last_emit, readervars, histvars, purevars>>
    /\ KeepCounters

\* let current_time = Instant::now();
SampleTime ==
    /\ loop_pc = "time"
    /\ current_time' = now
    /\ loop_pc' = "lock"
    /\ UNCHANGED <<sharedvars, now, checks, loop_result, capture_error,
                   frame_counter, fps_counter, last_second, acq, last_emit,
                   readervars, histvars, purevars>>
    /\ KeepLocals

\* A write lock that does not wait for the readers.
CanWriteIgnoringReaders == ~lock_writer

\* RwLock::write() is granted when nobody holds the lock.
CanWrite == ~lock_writer /\ lock_readers = {}

\* frame_buffer.write() finds the lock held by readers and queues up; a
\* parking_lot RwLock then admits no new reader before this writer.
WriteWait ==
    /\ loop_pc = "lock"
    /\ ~CanWrite
    /\ loop_pc' = "wait"
    /\ UNCHANGED <<sharedvars, now, checks, loop_result, capture_error, acq,
                   last_emit, readervars, histvars, purevars>>
    /\ KeepCounters /\ KeepLocals

\* let mut buffer = frame_buffer.write();
WriteLock ==
    /\ loop_pc \in {"lock", "wait"}
    /\ CanWrite
    /\ lock_writer' = TRUE
    /\ writes' = writes + 1
    /\ written' = TRUE
    /\ loop_pc' = "w_data"
    /\ UNCHANGED <<buffer, lock_readers, now, checks, loop_result,
                   capture_error, acq, last_emit, readervars, emits,
                   writes_at_publish, snapshot, consec, rseen, purevars>>
    /\ KeepCounters /\ KeepLocals

\* buffer.data = processed_data; (a move)
WriteData ==
    /\ loop_pc = "w_data"
    /\ buffer' = [buffer EXCEPT !.data = processed_data]
    /\ processed_data' = <<>>
    /\ loop_pc' = "w_width"
    /\ UNCHANGED <<lock_writer, lock_readers, now, checks, loop_result,
                   capture_error, acq, tex, window_pos, window_size, last_emit,
                   readervars, histvars, purevars>>
    /\ KeepCounters

\* A width rounded up.
BufferWidthCeil(width, scale_factor) ==
    (width + scale_factor - 1) \div scale_factor

\* window_size.width as u32 / scale_factor
BufferWidth(width, scale_factor) == width \div scale_factor

\* window_size.height as u32 / scale_factor
BufferHeight(height, scale_factor) == height \div scale_factor

\* buffer.width = window_size.width as u32 / scale_factor;
WriteWidth ==
    /\ loop_pc = "w_width"
    /\ buffer' = [buffer EXCEPT
                    !.width = BufferWidth(window_size[1], ScaleFactor)]
    /\ loop_pc' = "w_height"
    /\ UNCHANGED <<lock_writer, lock_readers, now, checks, loop_result,
                   capture_error, acq, last_emit, readervars, histvars,
                   purevars>>
    /\ KeepCounters /\ KeepLocals

\* buffer.height = window_size.height as u32 / scale_factor;
WriteHeight ==
    /\ loop_pc = "w_height"
    /\ buffer' = [buffer EXCEPT
                    !.height = BufferHeight(window_size[2], ScaleFactor)]
    /\ window_size' = NoPair
    /\ loop_pc' = "w_fps"
    /\ UNCHANGED <<lock_writer, lock_readers, now, checks, loop_result,
                   capture_error, acq, tex, window_pos, processed_data,
                   last_emit, readervars, histvars, purevars>>
    /\ KeepCounters

\* A publish on every write.
FpsDueAlways(current, last) == TRUE

\* current_time.duration_since(last_second).as_secs() >= 1
FpsDue(current, last) == (current - last) \div TicksPerSec >= 1

\* fps_counter = 0 after a publish
FpsCounterAfterPublish == 0

\* The `if` is taken: buffer.fps = fps_counter; fps_counter = 0;
\* last_second = current_time.
PublishFps ==
    /\ loop_pc = "w_fps"
    /\ FpsDue(current_time, last_second)
    /\ buffer' = [buffer EXCEPT !.fps = fps_counter]
    /\ fps_counter' = FpsCounterAfterPublish
    /\ last_second' = current_time
    /\ writes_at_publish' = writes
    /\ loop_pc' = "unlock"
    /\ UNCHANGED <<lock_writer, lock_readers, now, checks, loop_result,
                   capture_error, frame_counter, current_time, acq, last_emit,
                   readervars, written, writes, emits, snapshot, consec, rseen,
                   purevars>>
    /\ KeepLocals

\* The `if` is not taken.
KeepFps ==
    /\ loop_pc = "w_fps"
    /\ ~FpsDue(current_time, last_second)
    /\ loop_pc' = "unlock"
    /\ UNCHANGED <<sharedvars, now, checks, loop_result, capture_error, acq,
                   last_emit, readervars, histvars, purevars>>
    /\ KeepCounters /\ KeepLocals

\* Whether the RwLock is still write-locked after the closing brace of the
\* block that holds the guard `buffer`: the guard is dropped there.
LockStillHeld == TRUE

LockAfterBlock == FALSE

\* The write guard is dropped at the end of the block.
WriteUnlock ==
    /\ loop_pc = "unlock"
    /\ lock_writer' = LockAfterBlock
    /\ snapshot' = Snap(buffer, TRUE, frame_counter)
    /\ loop_pc' = "emit"
    /\ UNCHANGED <<buffer, lock_readers, now, checks, loop_result,
                   capture_error, acq, last_emit, readervars, written, writes, emits,
                   writes_at_publish, consec, rseen, purevars>>
    /\ KeepCounters /\ KeepLocals

\* The payload of window.emit("frame-ready", frame_counter)
EmitPayloadAhead == WrappingAdd1(frame_counter)

EmitPayload == frame_counter

\* window.emit(..) = Ok(())
EmitOk ==
    /\ loop_pc = "emit"
    /\ last_emit' = [some |-> TRUE, n |-> EmitPayload, ok |-> TRUE]
    /\ emits' = emits + 1
    /\ loop_pc' = "acquire"
    /\ DropLocals
    /\ UNCHANGED <<sharedvars, now, checks, loop_result, capture_error, acq,
                   readervars, written, writes, writes_at_publish, snapshot,
                   consec, rseen, purevars>>
    /\ KeepCounters

\* Where the loop goes after `if let Err(e) = window.emit(..)` printed e:
\* to the end of the Ok(tex) arm and round the loop.
AfterEmitErrReturn == "returned"

AfterEmitErr == "acquire"

\* window.emit(..) = Err(e): printed and dropped.
EmitErr ==
    /\ loop_pc = "emit"
    /\ last_emit' = [some |-> TRUE, n |-> EmitPayload, ok |-> FALSE]
    /\ emits' = emits + 1
    /\ loop_pc' = AfterEmitErr
    /\ DropLocals
    /\ UNCHANGED <<sharedvars, now, checks, loop_result, capture_error, acq,
                   readervars, written, writes, writes_at_publish, snapshot,
                   consec, rseen, purevars>>
    /\ KeepCounters

\* run: if let Err(e) = start_capture(..).await { eprintln!(..) }
RunObserve ==
    /\ loop_pc = "returned"
    /\ capture_error' = (loop_result = "Err")
    /\ loop_pc' = "finished"
    /\ UNCHANGED <<sharedvars, now, checks, loop_result, acq, last_emit,
                   readervars, histvars, purevars>>
    /\ KeepCounters /\ KeepLocals

\* The clock advances.
Tick ==
    /\ now < MaxTime
    /\ now' = now + 1
    /\ UNCHANGED <<sharedvars, checks, loopvars, readervars, histvars,
                   purevars>>


(***************************************************************************)
(* get_frame_data                                                          *)
(***************************************************************************)
\* A read that does not wait for the writer.
CanReadAlways == TRUE

\* RwLock::read() is granted while the loop neither holds the lock nor is
\* queued for it.
CanRead == ~lock_writer /\ loop_pc # "wait"

\* let frame_buffer = state.frame_buffer.read();
ReadLock(r) ==
    /\ rpc[r] = "idle"
    /\ CanRead
    /\ lock_readers' = lock_readers \cup {r}
    /\ rpc' = [rpc EXCEPT ![r] = "check"]
    /\ rseen' = [rseen EXCEPT ![r] = Seen(snapshot, acq \in FatalErrors,
                                         NotOlder(snapshot, last_emit))]
    /\ UNCHANGED <<buffer, lock_writer, now, checks, loopvars, rlocal, result,
                   written, writes, emits, writes_at_publish, snapshot, consec,
                   purevars>>

\* A query without the validity check.
IsValidFrameAlways(fb) == TRUE

\* !data.is_empty() && width > 0 && height > 0
IsValidFrame(fb) == Len(fb.data) > 0 /\ fb.width > 0 /\ fb.height > 0

\* The condition holds: the Ok tuple is built, frame_buffer.data.clone()
\* first.
CopyData(r) ==
    /\ rpc[r] = "check"
    /\ IsValidFrame(buffer)
    /\ rlocal' = [rlocal EXCEPT ![r].data = buffer.data]
    /\ rpc' = [rpc EXCEPT ![r] = "dims"]
    /\ UNCHANGED <<sharedvars, now, checks, loopvars, result, histvars,
                   purevars>>

\* The condition fails: Err(..) is returned and the read guard dropped.
ReturnErr(r) ==
    /\ rpc[r] = "check"
    /\ ~IsValidFrame(buffer)
    /\ result' = [result EXCEPT ![r] = ErrNoFrame]
    /\ lock_readers' = lock_readers \ {r}
    /\ rpc' = [rpc EXCEPT ![r] = "done"]
    /\ UNCHANGED <<buffer, lock_writer, now, checks, loopvars, rlocal,
                   histvars, purevars>>

\* frame_buffer.width, frame_buffer.height, frame_buffer.fps complete the
\* tuple; Ok((..)) is returned and the read guard dropped.
ReturnOk(r) ==
    /\ rpc[r] = "dims"
    /\ result' = [result EXCEPT ![r] =
                    OkFrame([data |-> rlocal[r].data, width |-> buffer.width,
                             height |-> buffer.height, fps |-> buffer.fps])]
    /\ rlocal' = [rlocal EXCEPT ![r] = NoLocal]
    /\ lock_readers' = lock_readers \ {r}
    /\ rpc' = [rpc EXCEPT ![r] = "done"]
    /\ UNCHANGED <<buffer, lock_writer, now, checks, loopvars, histvars,
                   purevars>>

\* The caller has consumed the result; the command can be invoked again.
Consume(r) ==
    /\ rpc[r] = "done"
    /\ result' = [result EXCEPT ![r] = NoResult]
    /\ rpc' = [rpc EXCEPT ![r] = "idle"]
    /\ rseen' = [rseen EXCEPT ![r] = NoSeen]
    /\ UNCHANGED <<sharedvars, now, checks, loopvars, rlocal, written, writes, emits,
                   writes_at_publish, snapshot, consec, purevars>>

Next ==
    \/ InitFail
    \/ InitOk
    \/ AcquireOk
    \/ AcquireTransient
    \/ AcquireFatal
    \/ GetDataOk
    \/ GetDataErr
    \/ OuterPositionOk
    \/ OuterPositionErr
    \/ OuterSizeOk
    \/ OuterSizeErr
    \/ ProcessFrame
    \/ ProcessPanic
    \/ SampleTime
    \/ WriteWait
    \/ WriteLock
    \/ WriteData
    \/ WriteWidth
    \/ WriteHeight
    \/ PublishFps
    \/ KeepFps
    \/ WriteUnlock
    \/ EmitOk
    \/ EmitErr
    \/ RunObserve
    \/ Tick
    \/ \E r \in Readers : ReadLock(r)
    \/ \E r \in Readers : CopyData(r)
    \/ \E r \in Readers : ReturnErr(r)
    \/ \E r \in Readers : ReturnOk(r)
    \/ \E r \in Readers : Consume(r)

Spec == Init /\ [][Next]_vars


(***************************************************************************)
(* The loop after 2^32 - 2 cycles: the state start_capture is in when its  *)
(* frame counter is about to wrap.  The store holds the frame of the last  *)
(* cycle, a full 8x8 region at the origin of the screen.                   *)
(***************************************************************************)
LateCounter == [hi |-> Limb - 1, lo |-> Limb - 2]

LateBuffer ==
    [data |-> process_image(FrameData([id |-> 0, width |-> 8, height |-> 8]),
                            8, U32Zero, U32Zero, 8, 8, ScaleFactor,
                            FALSE).bytes,
     width |-> BufferWidth(8, ScaleFactor),
     height |-> BufferHeight(8, ScaleFactor),
     fps |-> 0]

InitLate ==
    /\ InitCommon
    /\ buffer = LateBuffer
    /\ loop_pc = "acquire"
    /\ frame_counter = LateCounter
    /\ last_emit = [some |-> TRUE, n |-> LateCounter, ok |-> TRUE]
    /\ written = TRUE
    /\ snapshot = Snap(LateBuffer, TRUE, LateCounter)

InitWrap == Init \/ InitLate

SpecWrap == InitWrap /\ [][Next]_vars

(***************************************************************************)
(* Scheduling.  The loop task and every get_frame_data call keep running:  *)
(* a step that stays possible is eventually taken.  The RwLock is          *)
(* parking_lot's, whose fair hand-off lets no waiting reader be overtaken  *)
(* by the writer for ever, so a read lock is taken under strong fairness.  *)
(* What the collaborators answer (frames, errors, geometry, emit) is       *)
(* under no obligation.                                                    *)
(***************************************************************************)
\* Between frame_buffer.write() and the end of the block.
InsideWriteBlock ==
    WriteData \/ WriteWidth \/ WriteHeight \/ PublishFps \/ KeepFps
        \/ WriteUnlock

\* get_frame_data after frame_buffer.read(), and the caller's next call.
InsideRead(r) == CopyData(r) \/ ReturnErr(r) \/ ReturnOk(r) \/ Consume(r)

Fairness ==
    /\ WF_vars(WriteWait \/ WriteLock)
    /\ WF_vars(InsideWriteBlock)
    /\ \A r \in Readers : SF_vars(ReadLock(r)) /\ WF_vars(InsideRead(r))

SpecFair == Init /\ [][Next]_vars /\ Fairness

(***************************************************************************)
(* The transform on its own: process_image applied to one input, with the  *)
(* width and height the loop stores next to its result.                    *)
(***************************************************************************)
\* Every small region on a 4 x 4 raw frame, regions hanging over its edges
\* included.
SmallInputs ==
    [orig_width : {4}, orig_height : {4}, x : {-1, 0, 2}, y : {0, 2},
     crop_width : 0..MaxDim, crop_height : 0..MaxDim,
     scale_factor : 0..MaxScale, checks : BOOLEAN]

\* Windows of 8, 9 and 10 pixels lying inside a 12 x 12 raw frame, at the
\* loop's scale_factor and at 2.
WindowInputs ==
    [orig_width : {12}, orig_height : {12}, x : {0}, y : {0},
     crop_width : {8, 9, 10}, crop_height : {8, 9, 10},
     scale_factor : {2, ScaleFactor}, checks : BOOLEAN]

PureInputs == SmallInputs \cup WindowInputs

InitPure ==
    /\ InitCommon
    /\ checks = FALSE
    /\ buffer = FrameBufferDefault
    /\ loop_pc = "off"
    /\ frame_counter = U32Zero
    /\ last_emit = NoEmit
    /\ written = FALSE
    /\ snapshot = Snap(FrameBufferDefault, FALSE, U32Zero)

\* The next input of the transform.
Choose ==
    /\ loop_pc = "off"
    /\ ~tout.done
    /\ tin = NoInput
    /\ \E i \in PureInputs : tin' = i
    /\ UNCHANGED <<sharedvars, now, checks, loopvars, readervars, histvars,
                   tout>>

\* process_image(..) and buffer.width, buffer.height for its input.
Transform ==
    /\ loop_pc = "off"
    /\ tin # NoInput
    /\ ~tout.done
    /\ LET out == process_image(
                     FrameData([id |-> 0, width |-> tin.orig_width,
                                height |-> tin.orig_height]),
                     tin.orig_width, FromI32(tin.x), FromI32(tin.y),
                     tin.crop_width, tin.crop_height, tin.scale_factor,
                     tin.checks)
       IN  tout' = [done |-> TRUE, panic |-> out.panic, bytes |-> out.bytes,
                    grid |-> out.grid,
                    new_width |-> out.new_width,
                    new_height |-> out.new_height,
                    width |-> IF out.panic THEN 0
                              ELSE BufferWidth(tin.crop_width,
                                               tin.scale_factor),
                    height |-> IF out.panic THEN 0
                               ELSE BufferHeight(tin.crop_height,
                                                 tin.scale_factor)]
    /\ UNCHANGED <<sharedvars, now, checks, loopvars, readervars, histvars,
                   tin>>

NextPure == Choose \/ Transform

SpecPure == InitPure /\ [][NextPure]_vars


(***************************************************************************)
(* Properties.                                                             *)
(***************************************************************************)
\* start_capture has returned.
Terminated == loop_pc \in {"returned", "finished"}

\* The four fields of a buffer or of a history record.
Frame(b) == [data |-> b.data, width |-> b.width, height |-> b.height,
             fps |-> b.fps]

\* A stored frame with bytes and both dimensions positive.
NonEmptyFrame(b) == b.data # <<>> /\ b.width > 0 /\ b.height > 0

\* C1 as stated: get_frame returns the error only if no write has ever
\* occurred; after a write of (X, w, h) a get_frame issued before the next
\* write returns exactly (X, w, h, current fps), whatever X, w and h are.
C1_AsStated ==
    \A r \in Readers :
        rpc[r] = "done" =>
            result[r] = IF rseen[r].written THEN OkFrame(rseen[r])
                        ELSE ErrNoFrame

\* C1 amended: get_frame returns the error exactly when the store holds no
\* bytes or a zero width or height (no write yet, or the last write stored
\* such a frame); otherwise it returns exactly the (X, w, h, fps) the last
\* completed write left, and no write completes while the call reads.
C1_ReadReturnsLastWrite ==
    \A r \in Readers :
        /\ rpc[r] \in {"check", "dims"} =>
              Frame(rseen[r]) = Frame(snapshot)
        /\ rpc[r] = "done" =>
              result[r] = IF NonEmptyFrame(rseen[r]) THEN OkFrame(rseen[r])
                          ELSE ErrNoFrame

\* A call returned the frame of the last completed write.
C1_Witness ==
    \E r \in Readers :
        /\ rpc[r] = "done"
        /\ result[r].kind = "ok"
        /\ rseen[r].written
        /\ Frame(rseen[r]) = Frame(snapshot)
        /\ writes = 2

\* C2: a get_frame call that completes before the loop's first store write
\* returns the 'no frame available' error, also when the loop failed during
\* initialization.
C2_ErrorBeforeFirstWrite ==
    \A r \in Readers :
        (rpc[r] = "done" /\ ~written) => result[r] = ErrNoFrame

\* The loop failed in initialization and a call returned the error.
C2_Witness ==
    /\ Terminated
    /\ loop_result = "Err"
    /\ ~written
    /\ \E r \in Readers : rpc[r] = "done" /\ result[r].kind = "err"

\* C3 as stated: after a fatal acquire error that follows N >= 1 writes the
\* loop has terminated, the store stays as write N left it and every later
\* get_frame returns the frame of write N, not an error.
C3_AsStated ==
    (acq \in FatalErrors /\ written) =>
        /\ Terminated
        /\ Frame(buffer) = Frame(snapshot)
        /\ \A r \in Readers :
              (rpc[r] = "done" /\ rseen[r].after_fatal) =>
                  result[r] = OkFrame(snapshot)

\* C3 amended: after a fatal acquire error that follows N >= 1 writes the
\* loop has terminated, the store stays as write N left it, and every later
\* get_frame returns the frame of write N, or the error when write N stored
\* no bytes or a zero width or height.
C3_LastFrameAfterFatal ==
    (acq \in FatalErrors /\ written) =>
        /\ Terminated
        /\ ~lock_writer
        /\ Frame(buffer) = Frame(snapshot)
        /\ \A r \in Readers :
              (rpc[r] = "done" /\ rseen[r].after_fatal) =>
                  result[r] = IF NonEmptyFrame(snapshot)
                              THEN OkFrame(snapshot) ELSE ErrNoFrame

\* The loop broke after two writes and a later call returned the frame.
C3_Witness ==
    /\ acq \in FatalErrors
    /\ writes = 2
    /\ \E r \in Readers :
          /\ rpc[r] = "done"
          /\ rseen[r].after_fatal
          /\ result[r].kind = "ok"

\* C4: a get_frame never observes a half-updated frame: the lock is never
\* held by the loop and a call together, and a returned tuple is the buffer
\* one completed write left, never a mix of two writes.
C4_NoTornRead ==
    /\ ~(lock_writer /\ lock_readers # {})
    /\ \A r \in Readers :
          /\ rpc[r] \in {"check", "dims"} => r \in lock_readers
          /\ (rpc[r] = "done" /\ result[r].kind = "ok") =>
                /\ rseen[r].written
                /\ result[r] = OkFrame(rseen[r])

\* A call returned the frame of the first write although the second write
\* has completed since, with other contents.
C4_Witness ==
    \E r \in Readers :
        /\ rpc[r] = "done"
        /\ result[r].kind = "ok"
        /\ writes = 2
        /\ snapshot.written
        /\ ~lock_writer
        /\ Frame(snapshot) # Frame(rseen[r])

\* C5 as stated: the bytes a successful get_frame returns are exactly
\* width * height * 4 long.
C5_LengthMatchesDimensions ==
    \A r \in Readers :
        (rpc[r] = "done" /\ result[r].kind = "ok") =>
            Len(result[r].data) = result[r].width * result[r].height * 4

\* C6 as stated: after a fatal acquire failure the loop has terminated and
\* start_capture has returned an error, which its caller sees.
C6_FatalReturnsError ==
    acq \in FatalErrors =>
        /\ Terminated
        /\ loop_result = "Err"
        /\ loop_pc = "finished" => capture_error


\* C7: a transient acquire failure keeps the loop capturing and changes
\* nothing: store, frame counter, FPS tick counter and timestamp stay, no
\* notification is emitted, and the loop is back at the acquisition, however
\* many failures came before it.
C7_TransientChangesNothing ==
    [][consec' = consec + 1 =>
          /\ loop_pc = "acquire"
          /\ loop_pc' = "acquire"
          /\ loop_result' = None
          /\ UNCHANGED <<buffer, frame_counter, fps_counter, last_second,
                         last_emit, lock_writer, written, writes>>]_vars

\* Two transient failures in a row, with a frame in the store.
C7_Witness ==
    /\ consec = 2
    /\ written
    /\ loop_pc = "acquire"
    /\ NonEmptyFrame(buffer)

\* b is a + 1 in 32 bits, stated on the limbs.
IsSuccU32(a, b) ==
    IF a = U32Max THEN b = U32Zero
    ELSE IF a.lo = Limb - 1 THEN b = [hi |-> a.hi + 1, lo |-> 0]
    ELSE b = [hi |-> a.hi, lo |-> a.lo + 1]

\* C8: the frame counter is 0 when the loop starts capturing, moves only in
\* a cycle whose transform succeeded (the cycle that then writes the store),
\* there by exactly 1 with 2^32 - 1 followed by 0, and every notification
\* carries the counter of its cycle, one more than the one before it.
C8_FrameCounter ==
    [][/\ (loop_pc = "init" /\ loop_pc' = "acquire") =>
             frame_counter' = U32Zero
       /\ (loop_pc = "process" /\ loop_pc' = "time") =>
             IsSuccU32(frame_counter, frame_counter')
       /\ (loop_pc # "init" /\ ~(loop_pc = "process" /\ loop_pc' = "time")) =>
             frame_counter' = frame_counter
       /\ (loop_pc = "emit" /\ loop_pc' # "emit") =>
             /\ last_emit'.some
             /\ last_emit'.n = frame_counter
             /\ IsSuccU32(IF last_emit.some THEN last_emit.n ELSE U32Zero,
                          last_emit'.n)
       /\ (loop_pc # "emit") => last_emit' = last_emit]_vars

\* The counter has wrapped: a notification carried 0 after 2^32 - 1.
C8_Witness ==
    /\ frame_counter = U32Zero
    /\ last_emit.some
    /\ last_emit.n = U32Zero
    /\ writes = 2

IsFloor(q, n, d) == q * d <= n /\ n < (q + 1) * d

\* C10: for a region of width W and height H and a scale s >= 1, the
\* destination grid of the transform and the width and height stored with
\* its result are floor(W / s) and floor(H / s).
C10_FloorDimensions ==
    (tout.done /\ ~tout.panic) =>
        /\ tin.scale_factor >= 1
        /\ IsFloor(tout.new_width, tin.crop_width, tin.scale_factor)
        /\ IsFloor(tout.new_height, tin.crop_height, tin.scale_factor)
        /\ IsFloor(tout.width, tin.crop_width, tin.scale_factor)
        /\ IsFloor(tout.height, tin.crop_height, tin.scale_factor)

\* A region of 5 x 3 at scale 2: the division is not exact.
C10_Witness ==
    /\ tout.done
    /\ ~tout.panic
    /\ tin.crop_width = 5
    /\ tin.crop_height = 3
    /\ tin.scale_factor = 2
    /\ tout.width = 2
    /\ tout.height = 1
    /\ Len(tout.bytes) > 0


(***************************************************************************)
(* The transform, pixel by pixel.                                          *)
(***************************************************************************)
\* The transform has run on the chosen input and returned.
Returned == tout.done /\ ~tout.panic

\* Destination pixels in loop order, and those that appended bytes.
DestPixels == 1..Len(tout.grid)

EmittedPixels == {k \in DestPixels : tout.grid[k].emit}

\* Offset in the output of the bytes of destination pixel k.
OffsetOf(k) == 4 * Cardinality({j \in EmittedPixels : j < k})

\* Byte j of the raw frame handed to the transform.
SourceByte(j) == RawByte(0, j)

\* The region lies inside the raw frame.
RegionInsideRaw ==
    /\ tin.x >= 0 /\ tin.y >= 0
    /\ tin.x + tin.crop_width <= tin.orig_width
    /\ tin.y + tin.crop_height <= tin.orig_height

\* C11: every 4-byte pixel the transform emits is (source byte 2, source
\* byte 1, source byte 0, source byte 3) of the source pixel it sampled:
\* the first and third channels are swapped, the second and fourth pass
\* through.
C11_ChannelRemap ==
    Returned =>
        \A k \in EmittedPixels :
            LET o == OffsetOf(k)
                i == tout.grid[k].idx
            IN  /\ o + 4 <= Len(tout.bytes)
                /\ tout.bytes[o + 1] = SourceByte(i + 2)
                /\ tout.bytes[o + 2] = SourceByte(i + 1)
                /\ tout.bytes[o + 3] = SourceByte(i)
                /\ tout.bytes[o + 4] = SourceByte(i + 3)

\* A returned output of several pixels, one of them sampled past the first
\* source pixel.
C11_Witness ==
    /\ Returned
    /\ Cardinality(EmittedPixels) >= 4
    /\ \E k \in EmittedPixels :
          /\ tout.grid[k].idx > 0
          /\ tout.bytes[OffsetOf(k) + 1] # SourceByte(tout.grid[k].idx)


\* The source pixel at (sx, sy) of the raw frame, with its channels in the
\* order the transform emits them.
RemappedSource(sx, sy) ==
    LET i == (sy * tin.orig_width + sx) * 4
    IN  <<SourceByte(i + 2), SourceByte(i + 1), SourceByte(i),
          SourceByte(i + 3)>>

\* C12: when the region's width W and height H are exact multiples of the
\* scale s and the region lies inside the raw frame, the output has exactly
\* (W/s) * (H/s) * 4 bytes in row-major destination order, destination
\* pixel (dx, dy) being sampled from source pixel (x + dx*s, y + dy*s).
C12_ExactSampling ==
    (/\ Returned
     /\ tin.scale_factor >= 1
     /\ tin.crop_width % tin.scale_factor = 0
     /\ tin.crop_height % tin.scale_factor = 0
     /\ RegionInsideRaw) =>
        LET s  == tin.scale_factor
            nw == tin.crop_width \div s
            nh == tin.crop_height \div s
        IN  /\ Len(tout.bytes) = nw * nh * 4
            /\ Len(tout.grid) = nw * nh
            /\ \A k \in 1..(nw * nh) :
                  LET sx == tin.x + ((k - 1) % nw) * s
                      sy == tin.y + ((k - 1) \div nw) * s
                  IN  /\ tout.grid[k].emit
                      /\ tout.grid[k].src = <<U32Of(sx), U32Of(sy)>>
                      /\ SubSeq(tout.bytes, 4 * (k - 1) + 1, 4 * k)
                            = RemappedSource(sx, sy)

\* Scenario A: region (0, 0, 8, 8) at scale 4 gave 16 bytes sampled at
\* (0,0), (4,0), (0,4), (4,4).
C12_Witness ==
    /\ Returned
    /\ tin.x = 0 /\ tin.y = 0
    /\ tin.crop_width = 8 /\ tin.crop_height = 8
    /\ tin.scale_factor = 4
    /\ Len(tout.bytes) = 16
    /\ [k \in 1..4 |-> tout.grid[k].src]
          = <<<<U32Of(0), U32Of(0)>>, <<U32Of(4), U32Of(0)>>,
              <<U32Of(0), U32Of(4)>>, <<U32Of(4), U32Of(4)>>>>


\* The source coordinate of destination pixel k lies inside the region.
SourceInRegion(k) ==
    LET src_x == tout.grid[k].src[1]
        src_y == tout.grid[k].src[2]
    IN  /\ src_x.hi = 0 /\ src_y.hi = 0
        /\ tin.x <= src_x.lo /\ src_x.lo < tin.x + tin.crop_width
        /\ tin.y <= src_y.lo /\ src_y.lo < tin.y + tin.crop_height

\* C13: the steps x_step = ceil(W / new_width), y_step = ceil(H / new_height)
\* keep the sampling inside the region: for every region with a
\* non-negative origin and every scale s >= 1 with new_width >= 1 and
\* new_height >= 1, every destination pixel has its source coordinate
\* inside the region, also when W or H is no multiple of s.
C13_StepsStayInsideRegion ==
    (/\ Returned
     /\ tin.scale_factor >= 1
     /\ tout.new_width >= 1 /\ tout.new_height >= 1
     /\ tin.x >= 0 /\ tin.y >= 0) =>
        \A k \in DestPixels : SourceInRegion(k)


\* C14: a transform invoked with scale = 0 is rejected with an error value;
\* it does not crash (no panic, no division by zero).
C14_ZeroScaleRejected ==
    (tout.done /\ tin.scale_factor = 0) => ~tout.panic


\* The source index of destination pixel k lies inside the raw buffer
\* (for a source coordinate that did not wrap).
SourceInBuffer(k) ==
    LET src_x == tout.grid[k].src[1].lo
        src_y == tout.grid[k].src[2].lo
    IN  (src_y * tin.orig_width + src_x) * 4 + 3
            < tin.orig_width * tin.orig_height * 4

\* C19: skipped pixels write no padding.  A destination pixel whose source
\* coordinate is outside the region or whose source index is outside the
\* raw buffer contributes no byte and every other one exactly 4, so the
\* buffer stored with width and height has a length that is a multiple of
\* 4 and at most width * height * 4.
C19_NoPadding ==
    Returned =>
        /\ \A k \in DestPixels :
              /\ tout.grid[k].len = IF tout.grid[k].emit THEN 4 ELSE 0
              /\ (tin.x >= 0 /\ tin.y >= 0) =>
                    (tout.grid[k].len = 4
                        <=> (SourceInRegion(k) /\ SourceInBuffer(k)))
        /\ Len(tout.bytes) = 4 * Cardinality(EmittedPixels)
        /\ Len(tout.bytes) % 4 = 0
        /\ Len(tout.bytes) <= tout.width * tout.height * 4

\* An output where some destination pixels were skipped and others not.
C19_Witness ==
    /\ Returned
    /\ EmittedPixels # {}
    /\ EmittedPixels # DestPixels
    /\ Len(tout.bytes) < tout.width * tout.height * 4


\* C20: every pixel the transform emits is read from a source coordinate
\* (sx, sy) inside the raw frame in both dimensions, sx < raw_width and
\* sy < raw_height; a destination pixel whose source x is at or beyond
\* raw_width is skipped (regions with a non-negative origin).
C20_EmittedInsideRawFrame ==
    (Returned /\ tin.x >= 0 /\ tin.y >= 0) =>
        \A k \in EmittedPixels :
            LET src_x == tout.grid[k].src[1]
                src_y == tout.grid[k].src[2]
            IN  /\ src_x.hi = 0 /\ src_x.lo < tin.orig_width
                /\ src_y.hi = 0 /\ src_y.lo < tin.orig_height


(***************************************************************************)
(* Failures inside a cycle.                                                *)
(***************************************************************************)
\* C15: a failure of window.outer_position() or window.outer_size() after a
\* frame was acquired is loop-fatal: the loop terminates and returns an
\* error to its caller, and in that cycle the store is not written, the
\* frame counter and the FPS tick counter are not advanced and nothing is
\* emitted; once the loop has returned, the store is never touched again.
C15_GeometryFailureIsFatal ==
    [][/\ (loop_pc \in {"position", "size"}
              /\ loop_pc' \notin {"position", "size", "process"}) =>
              /\ loop_pc' = "returned"
              /\ loop_result' = "Err"
              /\ UNCHANGED <<buffer, lock_writer, frame_counter, fps_counter,
                             last_emit, writes, snapshot>>
       /\ Terminated =>
              /\ Terminated'
              /\ UNCHANGED <<buffer, lock_writer, loop_result, frame_counter,
                             fps_counter, last_emit, writes>>
       /\ (loop_pc = "returned" /\ loop_pc' = "finished") =>
              capture_error' = (loop_result = "Err")]_vars

\* The loop returned an error after a good frame was stored, the caller
\* logged it, and a get_frame call returned that frame.
C15_Witness ==
    /\ loop_pc = "finished"
    /\ loop_result = "Err"
    /\ capture_error
    /\ writes >= 1
    /\ acq = None
    /\ \E r \in Readers : rpc[r] = "done" /\ result[r] = OkFrame(buffer)

\* C16: a failed emit of frame-ready never propagates into the loop: the
\* loop goes on to the next acquisition without returning, and the store
\* write and the counter increments of the cycle stay as they are, exactly
\* as after a successful emit.
C16_EmitFailureIgnored ==
    [][(loop_pc = "emit" /\ loop_pc' # "emit" /\ ~last_emit'.ok) =>
          /\ loop_pc' = "acquire"
          /\ last_emit'.n = frame_counter
          /\ UNCHANGED <<sharedvars, loop_result, capture_error,
                         frame_counter, fps_counter, last_second, acq,
                         written, writes, writes_at_publish, snapshot>>]_vars

\* The first emit failed and the loop has since stored a second frame.
C16_Witness ==
    /\ last_emit.some /\ ~last_emit.ok
    /\ loop_pc = "emit"
    /\ writes = 2
    /\ loop_result = None


(***************************************************************************)
(* Ordering of the store write and the notification.                       *)
(***************************************************************************)
\* The loop holds, or is about to release, the write lock.
WriteSection == {"w_data", "w_width", "w_height", "w_fps", "unlock"}

\* C17: frame-ready with counter value n is emitted only after the store
\* write of cycle n has completed and the write lock is released; exactly
\* one emit is attempted per store write; and a get_frame that takes the
\* read lock after emit n reads the frame of cycle n or of a later cycle,
\* and returns what it read.
C17_NotifyAfterWrite ==
    /\ loop_pc = "emit" =>
          /\ ~lock_writer
          /\ snapshot.written
          /\ snapshot.n = frame_counter
          /\ Frame(snapshot) = Frame(buffer)
    /\ emits = IF loop_pc \in WriteSection \cup {"emit"} THEN writes - 1
               ELSE writes
    /\ NotOlder(snapshot, last_emit)
    /\ \A r \in Readers :
          /\ rpc[r] \in {"check", "dims", "done"} => rseen[r].fresh
          /\ (rpc[r] = "done" /\ result[r].kind = "ok") =>
                result[r] = OkFrame(rseen[r])

\* Two cycles were announced and a get_frame returned the frame of the
\* second.
C17_Witness ==
    /\ emits = 2
    /\ last_emit.some
    /\ last_emit.n = U32Of(2)
    /\ \E r \in Readers :
          /\ rpc[r] = "done"
          /\ rseen[r].fresh
          /\ result[r] = OkFrame(snapshot)
          /\ snapshot.n = last_emit.n


====
